---- MODULE Spec2Model ----
(***************************************************************************)
(* The workflow definition greeting_dag (dags/): two zero-argument         *)
(* callables, one DAG object, two PythonOperator tasks registered with it  *)
(* and one ordering edge, hello_task >> goodbye_task.                      *)
(*                                                                         *)
(* The module-level statements of the file are the steps of a load; `pc`   *)
(* is the line about to execute.  The host orchestrator is not part of the *)
(* repository: its steps (re-loading the file, starting a task whose       *)
(* upstream tasks have all succeeded, invoking the task's callable) are    *)
(* modelled from the description the specification gives of it.  One run   *)
(* of the workflow is modelled; the orchestrator's retries, schedules and  *)
(* worker failures are not.                                                *)
(***************************************************************************)
EXTENDS Integers, Sequences, FiniteSets, TLC

VARIABLES
    pc,            \* the module-level statement about to execute, or "loaded"
    clock,         \* the naive local wall clock read by datetime.now()
    load_began,    \* the clock's reading when the current load of the file began
    loads,         \* one record per DAG(...) evaluation: when, and the object built
    greeting_dag,  \* the module global greeting_dag
    operators,     \* the module globals goodbye_task and hello_task
    ti,            \* the state of each task in the run of the workflow
    log,           \* the orchestrator's invocations of callables, in order
    ncalls,        \* number of direct invocations of hello / goodbye so far
    last_call,     \* the last direct invocation: callable, arguments, result
    variant        \* which text of the file is loaded: "source" is the repository's

vars == <<pc, clock, load_began, loads, greeting_dag, operators, ti, log,
          ncalls, last_call, variant>>

(* ------------------------------- bounds -------------------------------- *)

MaxClock == 2

MaxLoads == 2

MaxDirectCalls == 2

(* ---------------------------- the callables ---------------------------- *)

TypeError == "TypeError"

hello_capitalised == "Hello World!"

\* def hello(): return 'Hello world!'
hello == "Hello world!"

goodbye_capitalised == "Goodbye everyone"

\* def goodbye(): return 'goodbye everyone'
goodbye == "goodbye everyone"

\* The text hello returns in the edited file "hello_edit" (used for the claim
\* about executions that differ only in what hello returned).
hello_edited == "Hello there!"

Callables == {"hello", "goodbye"}

\* f(*args): both functions take no parameter, so any argument is a TypeError.
Call(f, args) ==
    IF args # <<>> THEN TypeError
    ELSE IF f = "hello"
         THEN (IF variant = "hello_edit" THEN hello_edited ELSE hello)
         ELSE goodbye

SideEffect_clears_tasks(f, dag) == [dag EXCEPT !.task_ids = <<>>]

\* What a call of f leaves of the module global greeting_dag: the bodies are a
\* single return of a literal, they assign nothing and call nothing.
SideEffect(f, dag) == dag

(* ------------------------ the framework's objects ---------------------- *)

TaskNames == {"goodbye_task", "hello_task"}

NoDag == [dag_id |-> "", start_date |-> -1, task_ids |-> <<>>]

NoTask == [task_id |-> "", python_callable |-> "", op_args |-> <<>>,
           dag_id |-> "", upstream_task_ids |-> {}, downstream_task_ids |-> {}]

\* datetime.now()
datetime_now == clock

DAG_static_start(dag_id, start_date) ==
    [dag_id |-> dag_id, start_date |-> 0, task_ids |-> <<>>]

\* DAG(dag_id=..., start_date=...): a workflow with no task yet.
DAG(dag_id, start_date) ==
    [dag_id |-> dag_id, start_date |-> start_date, task_ids |-> <<>>]

PythonOperator_passes_hello(task_id, python_callable, dag) ==
    [task_id |-> task_id, python_callable |-> python_callable,
     op_args |-> IF python_callable = "goodbye" THEN <<Call("hello", <<>>)>> ELSE <<>>,
     dag_id |-> dag.dag_id,
     upstream_task_ids |-> {}, downstream_task_ids |-> {}]

\* PythonOperator(task_id=..., python_callable=..., dag=...): no op_args are
\* given, so the callable is invoked with none; the task has no relatives yet.
PythonOperator(task_id, python_callable, dag) ==
    [task_id |-> task_id, python_callable |-> python_callable,
     op_args |-> <<>>, dag_id |-> dag.dag_id,
     upstream_task_ids |-> {}, downstream_task_ids |-> {}]

\* dag=greeting_dag registers the new task with the workflow, in construction order.
add_task(dag, op) == [dag EXCEPT !.task_ids = Append(@, op.task_id)]

SetDownstream_noop(ops, up, down) == ops

SetDownstream_reversed(ops, up, down) ==
    [ops EXCEPT ![down].downstream_task_ids = @ \cup {ops[up].task_id},
                ![up].upstream_task_ids = @ \cup {ops[down].task_id}]

SetDownstream_both_ways(ops, up, down) ==
    [ops EXCEPT ![up].downstream_task_ids = @ \cup {ops[down].task_id},
                ![down].upstream_task_ids = @ \cup {ops[up].task_id},
                ![down].downstream_task_ids = @ \cup {ops[up].task_id},
                ![up].upstream_task_ids = @ \cup {ops[down].task_id}]

\* up >> down: down becomes a downstream relative of up, up an upstream one of down.
SetDownstream(ops, up, down) ==
    [ops EXCEPT ![up].downstream_task_ids = @ \cup {ops[down].task_id},
                ![down].upstream_task_ids = @ \cup {ops[up].task_id}]

(* ----------------------- the statements of the file -------------------- *)

\* goodbye_task = PythonOperator(task_id='goodbye_task', python_callable=goodbye, ...)
Stmt14 == [target |-> "goodbye_task", task_id |-> "goodbye_task",
           python_callable |-> "goodbye"]

Stmt18_wraps_goodbye == [target |-> "hello_task", task_id |-> "hello_task",
                         python_callable |-> "goodbye"]

\* hello_task = PythonOperator(task_id='hello_task', python_callable=hello, ...)
Stmt18 == [target |-> "hello_task", task_id |-> "hello_task",
           python_callable |-> "hello"]

Stmt22_by_construction_order ==
    [up |-> greeting_dag.task_ids[1], down |-> greeting_dag.task_ids[2]]

\* hello_task >> goodbye_task
Stmt22 == [up |-> "hello_task", down |-> "goodbye_task"]

\* The construction statement at a line.  In the edited file "swapped" the two
\* construction statements have changed places; every other text has the
\* repository's order, goodbye_task first.
StmtAt(line) ==
    IF variant = "swapped"
    THEN (IF line = "L14" THEN Stmt18 ELSE Stmt14)
    ELSE (IF line = "L14" THEN Stmt14 ELSE Stmt18)

ConstructTask(stmt) ==
    LET op == PythonOperator(stmt.task_id, stmt.python_callable, greeting_dag)
    IN  /\ operators' = [operators EXCEPT ![stmt.target] = op]
        /\ greeting_dag' = add_task(greeting_dag, op)

(* ------------------------------ the state ------------------------------ *)

Variants == {"source", "swapped", "hello_edit"}

\* The first load begins at whatever the wall clock reads then.
InitOf(v) ==
    /\ variant = v
    /\ pc = "L01"
    /\ clock \in 0..MaxClock
    /\ load_began = clock
    /\ loads = <<>>
    /\ greeting_dag = NoDag
    /\ operators = [n \in TaskNames |-> NoTask]
    /\ ti = [t \in TaskNames |-> "none"]
    /\ log = <<>>
    /\ ncalls = 0
    /\ last_call = [fn |-> "", args |-> <<>>, ret |-> ""]

Init == InitOf("source")

InitVariants == \E v \in Variants : InitOf(v)

(* ------------------------------ the clock ------------------------------ *)

\* The wall clock advances.
Tick ==
    /\ clock < MaxClock
    /\ clock' = clock + 1
    /\ UNCHANGED <<pc, load_began, loads, greeting_dag, operators, ti, log,
                   ncalls, last_call, variant>>

\* The wall clock goes back: datetime.now() is naive local time, which repeats
\* an hour at the end of daylight saving time and follows every step of the
\* system clock.
StepBack ==
    /\ \E t \in 0..(clock - 1) : clock' = t
    /\ UNCHANGED <<pc, load_began, loads, greeting_dag, operators, ti, log,
                   ncalls, last_call, variant>>

(* ------------------------- loading the definition ---------------------- *)

\* lines 1-10: the imports and the two function definitions
Exec01 ==
    /\ pc = "L01"
    /\ pc' = "L12"
    /\ UNCHANGED <<clock, load_began, loads, greeting_dag, operators, ti, log,
                   ncalls, last_call, variant>>

\* line 12: greeting_dag = DAG(dag_id = 'greeting_dag', start_date=datetime.now())
Exec12 ==
    /\ pc = "L12"
    /\ greeting_dag' = DAG("greeting_dag", datetime_now)
    /\ loads' = Append(loads, [now |-> clock, dag |-> greeting_dag'])
    /\ pc' = "L14"
    /\ UNCHANGED <<clock, load_began, operators, ti, log, ncalls, last_call,
                   variant>>

\* lines 14-16
Exec14 ==
    /\ pc = "L14"
    /\ ConstructTask(StmtAt("L14"))
    /\ pc' = "L18"
    /\ UNCHANGED <<clock, load_began, loads, ti, log, ncalls, last_call, variant>>

\* lines 18-20
Exec18 ==
    /\ pc = "L18"
    /\ ConstructTask(StmtAt("L18"))
    /\ pc' = "L22"
    /\ UNCHANGED <<clock, load_began, loads, ti, log, ncalls, last_call, variant>>

\* line 22
Exec22 ==
    /\ pc = "L22"
    /\ operators' = SetDownstream(operators, Stmt22.up, Stmt22.down)
    /\ pc' = "loaded"
    /\ UNCHANGED <<clock, load_began, loads, greeting_dag, ti, log, ncalls,
                   last_call, variant>>

LoadStep == Exec01 \/ Exec12 \/ Exec14 \/ Exec18 \/ Exec22

\* The orchestrator loads the file again: a fresh module namespace.
Reload ==
    /\ pc = "loaded"
    /\ Len(loads) < MaxLoads
    /\ pc' = "L01"
    /\ load_began' = clock
    /\ greeting_dag' = NoDag
    /\ operators' = [n \in TaskNames |-> NoTask]
    /\ UNCHANGED <<clock, loads, ti, log, ncalls, last_call, variant>>

(* ------------------------- running the workflow ------------------------ *)

Registered == {greeting_dag.task_ids[i] : i \in DOMAIN greeting_dag.task_ids}

get_task(id) == operators[CHOOSE n \in TaskNames : operators[n].task_id = id]

\* A task may start when the definition is loaded, it has not run, and every
\* task upstream of it has succeeded.
Runnable(t) ==
    /\ pc = "loaded"
    /\ t \in Registered
    /\ ti[t] = "none"
    /\ \A u \in get_task(t).upstream_task_ids : ti[u] = "success"

TaskStart(t) ==
    /\ Runnable(t)
    /\ ti' = [ti EXCEPT ![t] = "running"]
    /\ UNCHANGED <<pc, clock, load_began, loads, greeting_dag, operators, log,
                   ncalls, last_call, variant>>

\* The running task invokes its callable with its op_args and finishes.
TaskExecute(t) ==
    /\ pc = "loaded"
    /\ t \in Registered
    /\ ti[t] = "running"
    /\ LET op == get_task(t)
           r  == Call(op.python_callable, op.op_args)
       IN  /\ log' = Append(log, [task_id |-> t, fn |-> op.python_callable,
                                  args |-> op.op_args, ret |-> r])
           /\ ti' = [ti EXCEPT ![t] = IF r = TypeError THEN "failed" ELSE "success"]
           /\ greeting_dag' = SideEffect(op.python_callable, greeting_dag)
    /\ UNCHANGED <<pc, clock, load_began, loads, operators, ncalls, last_call,
                   variant>>

\* hello() or goodbye() invoked directly, with no arguments, by any importer
\* of the module once the functions are defined.
DirectCall(f) ==
    /\ pc # "L01"
    /\ ncalls < MaxDirectCalls
    /\ ncalls' = ncalls + 1
    /\ last_call' = [fn |-> f, args |-> <<>>, ret |-> Call(f, <<>>)]
    /\ greeting_dag' = SideEffect(f, greeting_dag)
    /\ UNCHANGED <<pc, clock, load_began, loads, operators, ti, log, variant>>

Next ==
    \/ Tick
    \/ StepBack
    \/ Exec01
    \/ Exec12
    \/ Exec14
    \/ Exec18
    \/ Exec22
    \/ Reload
    \/ \E t \in TaskNames : TaskStart(t)
    \/ \E t \in TaskNames : TaskExecute(t)
    \/ \E f \in Callables : DirectCall(f)

Spec == Init /\ [][Next]_vars

\* The file as it is, and the two edited files.
SpecVariants == InitVariants /\ [][Next]_vars

\* A load runs to its end, and the orchestrator is fair to the tasks.
FairSpec ==
    /\ Init
    /\ [][Next]_vars
    /\ WF_vars(LoadStep)
    /\ WF_vars(\E t \in TaskNames : TaskStart(t))
    /\ WF_vars(\E t \in TaskNames : TaskExecute(t))

(* ------------------------------ properties ----------------------------- *)

Started == {"running", "success", "failed"}

Edges == {e \in TaskNames \X TaskNames :
            e[2] \in operators[e[1]].downstream_task_ids}

\* The tasks reachable from t along ordering edges, in at most n steps.
RECURSIVE ReachIn(_, _)
ReachIn(S, n) ==
    IF n = 0 THEN {}
    ELSE LET step == {d \in TaskNames : \E u \in S : <<u, d>> \in Edges}
         IN  step \cup ReachIn(step, n - 1)

Reach(t) == ReachIn({t}, Cardinality(TaskNames))

RunnableSet == {t \in TaskNames : Runnable(t)}

\* C1: goodbye_task is never running or finished unless hello_task has
\* completed, and no invocation of goodbye precedes the invocation of hello.
C1_HelloCompletesBeforeGoodbye ==
    /\ ti["goodbye_task"] \in Started => ti["hello_task"] = "success"
    /\ \A i \in DOMAIN log :
          log[i].task_id = "goodbye_task" =>
             \E j \in 1..(i - 1) : log[j].task_id = "hello_task"

C1_Witness == ti["goodbye_task"] = "running" /\ ti["hello_task"] = "success"

\* C2: every invocation of hello with no arguments, direct or by the
\* orchestrator, in whatever state, returns exactly "Hello world!".
C2_HelloReturnsLiteral ==
    /\ last_call.fn = "hello" => last_call.ret = "Hello world!"
    /\ \A i \in DOMAIN log : log[i].fn = "hello" => log[i].ret = "Hello world!"

C2_Witness ==
    /\ last_call.fn = "hello"
    /\ ncalls = MaxDirectCalls
    /\ ti["goodbye_task"] = "success"
    /\ log[1].fn = "hello"

\* C3: every invocation of goodbye with no arguments, direct or by the
\* orchestrator, in whatever state, returns exactly "goodbye everyone".
C3_GoodbyeReturnsLiteral ==
    /\ last_call.fn = "goodbye" => last_call.ret = "goodbye everyone"
    /\ \A i \in DOMAIN log : log[i].fn = "goodbye" => log[i].ret = "goodbye everyone"

C3_Witness ==
    /\ last_call.fn = "goodbye"
    /\ ncalls = MaxDirectCalls
    /\ pc = "L14"
    /\ Len(log) = 2
    /\ log[2].fn = "goodbye"

\* C4: once loaded, greeting_dag owns exactly the two tasks hello_task and
\* goodbye_task, hello_task wraps hello and goodbye_task wraps goodbye, each
\* is invoked with no arguments and each belongs to greeting_dag alone.
C4_TwoTasksOneCallableEach ==
    pc = "loaded" =>
       /\ greeting_dag.dag_id = "greeting_dag"
       /\ Len(greeting_dag.task_ids) = 2
       /\ Registered = {"hello_task", "goodbye_task"}
       /\ \A n \in TaskNames :
             /\ operators[n].task_id = n
             /\ operators[n].dag_id = "greeting_dag"
             /\ operators[n].op_args = <<>>
       /\ operators["hello_task"].python_callable = "hello"
       /\ operators["goodbye_task"].python_callable = "goodbye"

C4_Witness == pc = "loaded" /\ Len(loads) = MaxLoads /\ ti["hello_task"] = "success"

\* C5: the ordering graph never has a cycle, and once loaded it is exactly the
\* one edge hello_task -> goodbye_task: hello_task has no upstream task and
\* goodbye_task no downstream task.
C5_OneEdgeNoCycle ==
    /\ \A t \in TaskNames : t \notin Reach(t)
    /\ pc = "loaded" =>
          /\ Edges = {<<"hello_task", "goodbye_task">>}
          /\ operators["hello_task"].upstream_task_ids = {}
          /\ operators["hello_task"].downstream_task_ids = {"goodbye_task"}
          /\ operators["goodbye_task"].upstream_task_ids = {"hello_task"}
          /\ operators["goodbye_task"].downstream_task_ids = {}

C5_Witness == pc = "loaded" /\ "goodbye_task" \in Reach("hello_task")

\* C6: a step that starts, runs or completes a task (a step that changes a
\* task's state) leaves the workflow, its tasks, their callables and the
\* ordering edges as they were.
C6_ExecutionKeepsDefinition ==
    [][ti' # ti => /\ greeting_dag' = greeting_dag
                   /\ operators' = operators
                   /\ pc' = pc]_vars

C6_Witness ==
    /\ pc = "loaded"
    /\ ti["goodbye_task"] = "success"
    /\ Len(greeting_dag.task_ids) = 2
    /\ Edges # {}

\* C7: goodbye is invoked with no arguments, so never with a value hello
\* returned, and goodbye_task's result is "goodbye everyone" whatever hello
\* returned (the file as it is, or edited so that hello returns another text).
C7_GoodbyeIgnoresHello ==
    \A i \in DOMAIN log :
       log[i].task_id = "goodbye_task" =>
          /\ log[i].args = <<>>
          /\ \A j \in DOMAIN log, k \in DOMAIN log[i].args :
                log[j].task_id = "hello_task" => log[i].args[k] # log[j].ret
          /\ log[i].ret = "goodbye everyone"

C7_Witness ==
    /\ variant = "hello_edit"
    /\ Len(log) = 2
    /\ log[1].task_id = "hello_task"
    /\ log[1].ret # "Hello world!"
    /\ log[2].task_id = "goodbye_task"

\* C8: whichever of the two tasks is constructed first (goodbye_task in the
\* file, hello_task with the construction statements swapped), the tasks that
\* can start are decided by the task states and the edge alone: hello_task
\* first, goodbye_task once hello_task has succeeded, nothing else.
C8_OrderByEdgeNotConstruction ==
    /\ pc = "loaded" =>
          /\ greeting_dag.task_ids =
                IF variant = "swapped" THEN <<"hello_task", "goodbye_task">>
                                       ELSE <<"goodbye_task", "hello_task">>
          /\ RunnableSet =
                IF ti["hello_task"] = "none" THEN {"hello_task"}
                ELSE IF ti["hello_task"] = "success" /\ ti["goodbye_task"] = "none"
                     THEN {"goodbye_task"}
                     ELSE {}
    /\ ti["goodbye_task"] # "none" => ti["hello_task"] # "none"
    /\ log # <<>> => log[1].task_id = "hello_task"

C8_Witness ==
    /\ variant = "source"
    /\ pc = "loaded"
    /\ greeting_dag.task_ids[1] = "goodbye_task"
    /\ ti["hello_task"] = "running"
    /\ ti["goodbye_task"] = "none"

C8_WitnessSwapped ==
    /\ variant = "swapped"
    /\ pc = "loaded"
    /\ greeting_dag.task_ids[1] = "hello_task"
    /\ ti["hello_task"] = "running"
    /\ ti["goodbye_task"] = "none"

AllDone ==
    /\ \A t \in TaskNames : ti[t] = "success"
    /\ Len(log) = 2
    /\ log[1].fn = "hello"
    /\ log[2].fn = "goodbye"
    /\ RunnableSet = {}

\* C9: under a fair orchestrator the run reaches, and then stays in, a state
\* where both tasks have completed, hello was invoked once and then goodbye
\* once, and no task is runnable.
C9_RunCompletes == <>[]AllDone

C9_Witness == AllDone /\ pc = "loaded" /\ Len(loads) = MaxLoads

\* C10: each load takes the start timestamp from the clock at that load: it
\* is the clock's reading when line 12 builds the DAG, it stays the workflow's
\* start timestamp for the rest of that load, and two loads that read
\* different clock values have different start timestamps.  (Nothing orders
\* it with the time the load began: the wall clock may have gone back.)
C10_StartDateIsClockReading ==
    /\ \A i \in DOMAIN loads : loads[i].dag.start_date = loads[i].now
    /\ \A i \in DOMAIN loads, j \in DOMAIN loads :
          loads[i].now # loads[j].now =>
             loads[i].dag.start_date # loads[j].dag.start_date
    /\ greeting_dag # NoDag =>
          greeting_dag.start_date = loads[Len(loads)].now

\* The wall clock went back between the two loads, and again within the second
\* load before line 12.
C10_Witness ==
    /\ Len(loads) = 2
    /\ pc = "loaded"
    /\ loads[2].now < loads[1].now
    /\ loads[2].dag.start_date < loads[1].dag.start_date
    /\ greeting_dag.start_date = loads[2].now
    /\ greeting_dag.start_date < load_began

\* The first load: the wall clock went back before line 12.
C10_WitnessFirstLoad ==
    /\ Len(loads) = 1
    /\ greeting_dag.start_date = loads[1].now
    /\ greeting_dag.start_date < load_began

\* C10 as stated: in addition, the start timestamp is never earlier than the
\* time the load began.
C10_AsStated ==
    /\ \A i \in DOMAIN loads : loads[i].dag.start_date = loads[i].now
    /\ \A i \in DOMAIN loads, j \in DOMAIN loads :
          loads[i].now # loads[j].now =>
             loads[i].dag.start_date # loads[j].dag.start_date
    /\ greeting_dag # NoDag => greeting_dag.start_date >= load_began

====
